---------------------------- MODULE Spec2Model ----------------------------
(***************************************************************************)
(* Model of pihole-exporter.py: the refresh cycle fetch_pihole_stats that  *)
(* rebinds and fills the module globals one metric group after the other,  *)
(* the background thread that repeats it, and the HTTP handler that renders *)
(* the globals with format_metrics while a cycle may be in flight.         *)
(*                                                                         *)
(* Python values are pairs <<type, payload>>.  A str payload is a sequence  *)
(* of one-character strings.  A result row and metrics_cache are functions  *)
(* from field names; the insertion-ordered dicts that format_metrics        *)
(* iterates are sequences of <<key, value>> pairs.                          *)
(***************************************************************************)
EXTENDS Integers, Sequences, FiniteSets, TLC

VARIABLES
    store,      \* the module globals of lines 25-33, by name
    age,        \* per global: cycles started since its current object was bound
    main,       \* position of the __main__ block (lines 570-585)
    fetcher,    \* position of the background_fetcher thread (lines 563-567)
    partial,    \* globals whose current object was emptied and not yet refilled
    faults,     \* collection queries so far that a healthy database answers otherwise
    fs,         \* frame of the running fetch_pihole_stats call
    rq          \* the request being handled by MetricsHandler.do_GET

vars == <<store, age, main, fetcher, partial, faults, fs, rq>>

(***************************************************************************)
(* Bounds of the model.                                                    *)
(***************************************************************************)
\* ages are counted up to MaxAge and saturate there
MaxAge == 1
\* longest result a collection query returns
MaxRows == 1
\* collection queries of a run that a healthy database answers otherwise
MaxFaults == 1

(***************************************************************************)
(* Python values.                                                          *)
(***************************************************************************)
PyNone == <<"NoneType", 0>>
PyInt(n) == <<"int", n>>
PyFloat(n) == <<"float", n>>
PyStr(s) == <<"str", s>>

\* row.get(field, default) on a mapping
Get(row, field, default) == IF field \in DOMAIN row THEN row[field] ELSE default

\* float(v) raises TypeError for None (and ValueError for a non-numeric str)
FloatRaises(v) == v[1] \notin {"int", "float"}
float(v) == PyFloat(v[2])

\* bool(v) as used by `or` and any()
Truthy(v) ==
    CASE v[1] \in {"int", "float"} -> v[2] # 0
      [] v[1] = "str" -> v[2] # <<>>
      [] v[1] = "dict" -> v[2] # <<>>
      [] OTHER -> FALSE

\* a or b
PyOr(a, b) == IF Truthy(a) THEN a ELSE b


(***************************************************************************)
(* Strings.                                                                *)
(***************************************************************************)
Unknown == <<"u", "n", "k", "n", "o", "w", "n">>

Digit(d) == <<"0", "1", "2", "3", "4", "5", "6", "7", "8", "9">>[d + 1]

\* str(n) for a non-negative int
RECURSIVE IntStr(_)
IntStr(n) == IF n < 10 THEN <<Digit(n)>> ELSE IntStr(n \div 10) \o <<Digit(n % 10)>>

\* s.replace(c, rep) for a one-character c
RECURSIVE Replace(_, _, _)
Replace(s, c, rep) ==
    IF s = <<>> THEN <<>>
    ELSE (IF Head(s) = c THEN rep ELSE <<Head(s)>>) \o Replace(Tail(s), c, rep)

\* the escaping without its first pass, to test that C11_LabelsEscaped sees the
\* backslashes doubled
escape_quotes_only(value) ==
    IF value = PyNone THEN Unknown
    ELSE Replace(Replace(value[2], "\"", <<"\\", "\"">>), "\n", <<"\\", "n">>)

\* lines 386-393; the result is a sequence of characters
escape_label_value(value) ==
    IF value = PyNone THEN Unknown
    ELSE Replace(Replace(Replace(value[2], "\\", <<"\\", "\\">>),
                         "\"", <<"\\", "\"">>),
                 "\n", <<"\\", "n">>)

(***************************************************************************)
(* The snapshot globals.                                                   *)
(***************************************************************************)
\* the collections in the order fetch_pihole_stats fills them
CollNames == <<"per_client_metrics", "top_domains", "top_clients", "query_types",
               "upstream_servers", "top_permitted_domains", "top_blocked_domains">>

GroupNames == {"metrics_cache"} \cup {CollNames[i] : i \in 1..Len(CollNames)}

\* the globals that are dicts; the others are lists
DictNames == {"per_client_metrics", "query_types", "upstream_servers"}

\* the columns of the last 24 hours in the place of the totals and the other
\* way round, to test that C13_ScalarsFromRow sees which column a key is taken from
StatsColumnSwapped ==
    [dns_queries_total |-> "queries_24h",
     dns_blocked_total |-> "blocked_24h",
     dns_forwarded_total |-> "forwarded_24h",
     dns_cached_total |-> "cached_24h",
     clients_total |-> "unique_clients_24h",
     devices_total |-> "devices_total",
     devices_active_24h |-> "devices_active_24h",
     dns_queries_24h |-> "queries_total",
     dns_blocked_24h |-> "blocked_total",
     dns_forwarded_24h |-> "forwarded_total",
     dns_cached_24h |-> "cached_total",
     clients_24h |-> "unique_clients_total"]

\* the keys of metrics_cache with the stats column each is taken from (lines 103-116)
StatsColumn == [dns_queries_total |-> "queries_total",
                dns_blocked_total |-> "blocked_total",
                dns_forwarded_total |-> "forwarded_total",
                dns_cached_total |-> "cached_total",
                clients_total |-> "unique_clients_total",
                devices_total |-> "devices_total",
                devices_active_24h |-> "devices_active_24h",
                dns_queries_24h |-> "queries_24h",
                dns_blocked_24h |-> "blocked_24h",
                dns_forwarded_24h |-> "forwarded_24h",
                dns_cached_24h |-> "cached_24h",
                clients_24h |-> "unique_clients_24h"]

MetricKeys == DOMAIN StatsColumn

\* lines 103-116: the dict built from the first stats row
StatsRaises(stats) ==
    \E k \in MetricKeys : FloatRaises(Get(stats, StatsColumn[k], PyInt(0)))

MetricsFromStats(stats) ==
    [k \in MetricKeys |-> float(Get(stats, StatsColumn[k], PyInt(0)))]

\* integer zeros in the place of lines 199-212, to test that C4_ZeroScalars
\* tells 0 from 0.0
ZeroMetricsInt == [k \in MetricKeys |-> PyInt(0)]

\* lines 199-212
ZeroMetrics == [k \in MetricKeys |-> PyFloat(0)]

(***************************************************************************)
(* Legacy HTTP fallback, lines 122-194.                                    *)
(***************************************************************************)
\* the endpoints list of lines 123-129
endpoints == <<"/api/summary", "/api", "/admin/api.php?summaryRaw",
               "/admin/api.php?summary", "/admin/api.php">>

\* data.get(key) on an insertion-ordered dict
RECURSIVE DGet(_, _)
DGet(d, key) ==
    IF d = <<>> THEN PyNone
    ELSE IF d[Len(d)][1] = key THEN d[Len(d)][2]
    ELSE DGet(SubSeq(d, 1, Len(d) - 1), key)

\* lines 159-163
TopLevelFields(d) ==
    [dns_queries |-> PyOr(PyOr(DGet(d, "dns_queries_today"), DGet(d, "queries")),
                          DGet(d, "dns_queries_total")),
     ads_blocked |-> PyOr(PyOr(DGet(d, "ads_blocked_today"), DGet(d, "ads_blocked_total")),
                          DGet(d, "dns_blocked_total")),
     forwarded |-> PyOr(DGet(d, "queries_forwarded"), DGet(d, "forwarded")),
     cached |-> PyOr(DGet(d, "queries_cached"), DGet(d, "cached")),
     clients |-> PyOr(DGet(d, "unique_clients"), DGet(d, "clients"))]

\* any([dns_queries, ads_blocked, clients])
AnyField(f) == Truthy(f.dns_queries) \/ Truthy(f.ads_blocked) \/ Truthy(f.clients)

\* lines 168-172: the loop over data.values(), in dict order
RECURSIVE NestedFields(_, _)
NestedFields(f, d) ==
    IF d = <<>> THEN f
    ELSE LET v == Head(d)[2]
             g == IF v[1] = "dict"
                  THEN [f EXCEPT
                          !.dns_queries = PyOr(@, DGet(v[2], "dns_queries_today")),
                          !.ads_blocked = PyOr(@, DGet(v[2], "ads_blocked_today")),
                          !.clients = PyOr(@, DGet(v[2], "unique_clients"))]
                  ELSE f
         IN NestedFields(g, Tail(d))

\* lines 159-172
MappedFields(d) ==
    LET f == TopLevelFields(d)
    IN IF AnyField(f) THEN f ELSE NestedFields(f, d)

\* the five values passed to float() in lines 176-187, `x or 0` applied
OrZero(v) == PyOr(v, PyInt(0))

ApiRaises(f) ==
    \E k \in DOMAIN f : FloatRaises(OrZero(f[k]))

\* lines 175-188
MetricsFromApi(f) ==
    [dns_queries_total |-> float(OrZero(f.dns_queries)),
     dns_blocked_total |-> float(OrZero(f.ads_blocked)),
     dns_forwarded_total |-> float(OrZero(f.forwarded)),
     dns_cached_total |-> float(OrZero(f.cached)),
     clients_total |-> float(OrZero(f.clients)),
     devices_total |-> PyFloat(0),
     devices_active_24h |-> PyFloat(0),
     dns_queries_24h |-> float(OrZero(f.dns_queries)),
     dns_blocked_24h |-> float(OrZero(f.ads_blocked)),
     dns_forwarded_24h |-> float(OrZero(f.forwarded)),
     dns_cached_24h |-> float(OrZero(f.cached)),
     clients_24h |-> float(OrZero(f.clients))]

\* one pass of the loop body, lines 140-194, on the answer of requests.get:
\* TRUE when the endpoint yields the scalars (success_api), FALSE when the loop
\* goes on to the next endpoint
EndpointUsable(resp) ==
    /\ ~resp.raises
    /\ resp.status_code = 200
    /\ resp.json[1] # "invalid"
    /\ resp.json[1] = "dict"
    /\ AnyField(MappedFields(resp.json[2]))
    /\ ~ApiRaises(MappedFields(resp.json[2]))

(***************************************************************************)
(* The collection groups, lines 229-372.                                   *)
(***************************************************************************)
\* lines 298-302
type_names == <<"A", "AAAA", "ANY", "SRV", "SOA", "PTR", "TXT", "NAPTR", "MX", "DS",
                "RRSIG", "DNSKEY", "NS", "OTHER", "SVCB", "HTTPS">>

Chars(name) ==
    CASE name = "A" -> <<"A">>
      [] name = "AAAA" -> <<"A", "A", "A", "A">>
      [] name = "ANY" -> <<"A", "N", "Y">>
      [] name = "SRV" -> <<"S", "R", "V">>
      [] name = "SOA" -> <<"S", "O", "A">>
      [] name = "PTR" -> <<"P", "T", "R">>
      [] name = "TXT" -> <<"T", "X", "T">>
      [] name = "NAPTR" -> <<"N", "A", "P", "T", "R">>
      [] name = "MX" -> <<"M", "X">>
      [] name = "DS" -> <<"D", "S">>
      [] name = "RRSIG" -> <<"R", "R", "S", "I", "G">>
      [] name = "DNSKEY" -> <<"D", "N", "S", "K", "E", "Y">>
      [] name = "NS" -> <<"N", "S">>
      [] name = "OTHER" -> <<"O", "T", "H", "E", "R">>
      [] name = "SVCB" -> <<"S", "V", "C", "B">>
      [] name = "HTTPS" -> <<"H", "T", "T", "P", "S">>

\* line 305: type_names.get(qtype, f"TYPE{qtype}")
TypeName(qtype) ==
    IF qtype[1] = "int" /\ qtype[2] \in 1..Len(type_names)
    THEN PyStr(Chars(type_names[qtype[2]]))
    ELSE PyStr(<<"T", "Y", "P", "E">> \o
               (IF qtype[1] = "int" THEN IntStr(qtype[2]) ELSE <<"N", "o", "n", "e">>))

\* the columns each group passes to float()
NumFields(name) ==
    CASE name = "per_client_metrics" -> {"queries", "blocked", "cached", "forwarded"}
      [] name = "top_domains" -> {"queries", "blocked"}
      [] name = "top_clients" -> {"numQueries"}
      [] name \in {"query_types", "upstream_servers"} -> {"count"}
      [] OTHER -> {"queries"}

\* the loop body of a group raises on this row (float() of a null column)
RowRaises(name, row) ==
    \E f \in NumFields(name) : FloatRaises(Get(row, f, PyInt(0)))

Num(row, f) == float(Get(row, f, PyInt(0)))

\* the key a dict group stores the row under (lines 232, 304-305, 325)
RowKey(name, row) ==
    CASE name = "per_client_metrics" -> Get(row, "client", PyStr(Unknown))
      [] name = "query_types" -> TypeName(Get(row, "type", PyInt(0)))
      [] name = "upstream_servers" -> Get(row, "forward", PyStr(Unknown))

\* the value a group stores for the row (lines 233-238, 258-262, 277-282, 306,
\* 326, 346-349, 369-372)
RowEntry(name, row) ==
    CASE name = "per_client_metrics" ->
           [queries |-> Num(row, "queries"), blocked |-> Num(row, "blocked"),
            cached |-> Num(row, "cached"), forwarded |-> Num(row, "forwarded")]
      [] name = "top_domains" ->
           [domain |-> Get(row, "domain", PyStr(Unknown)),
            queries |-> Num(row, "queries"), blocked |-> Num(row, "blocked")]
      [] name = "top_clients" ->
           [mac |-> Get(row, "hwaddr", PyStr(<<>>)),
            name |-> Get(row, "macVendor", PyStr(Unknown)),
            ip |-> PyStr(<<>>),
            queries |-> Num(row, "numQueries")]
      [] name \in {"query_types", "upstream_servers"} -> Num(row, "count")
      [] OTHER ->
           [domain |-> Get(row, "domain", PyStr(Unknown)),
            queries |-> Num(row, "queries")]

\* d[key] = value on an insertion-ordered dict
DictSet(d, key, value) ==
    IF \E i \in 1..Len(d) : d[i][1] = key
    THEN [i \in 1..Len(d) |-> IF d[i][1] = key THEN <<key, value>> ELSE d[i]]
    ELSE Append(d, <<key, value>>)

\* a loop body that puts the row in front, to test that C14_AdapterOrder sees
\* the order of the list
InsertInFront(name, coll, row) ==
    IF name \in DictNames
    THEN DictSet(coll, RowKey(name, row), RowEntry(name, row))
    ELSE <<RowEntry(name, row)>> \o coll

\* one pass of a group's loop body on a row that does not raise
Insert(name, coll, row) ==
    IF name \in DictNames
    THEN DictSet(coll, RowKey(name, row), RowEntry(name, row))
    ELSE Append(coll, RowEntry(name, row))

\* d after d[key] = value for each pair of e in turn: a key keeps the place of
\* its first assignment and has the value of its last
DictUpdate(d, e) ==
    LET all == d \o e
        firsts == {i \in 1..Len(all) : \A j \in 1..(i - 1) : all[j][1] # all[i][1]}
        first(k) == CHOOSE i \in firsts : Cardinality({j \in firsts : j < i}) = k - 1
        last(key) == CHOOSE i \in 1..Len(all) :
                        /\ all[i][1] = key
                        /\ \A j \in (i + 1)..Len(all) : all[j][1] # key
    IN [k \in 1..Cardinality(firsts) |->
            <<all[first(k)][1], all[last(all[first(k)][1])][2]>>]

\* the whole loop on a result without a raising row
Filled(name, coll, rows) ==
    IF name \in DictNames
    THEN DictUpdate(coll, [i \in 1..Len(rows) |->
                              <<RowKey(name, rows[i]), RowEntry(name, rows[i])>>])
    ELSE coll \o [i \in 1..Len(rows) |-> RowEntry(name, rows[i])]

(***************************************************************************)
(* format_metrics, lines 396-537: the sample lines in the order they are   *)
(* rendered.  `how` is the way the global is read: "get" is one            *)
(* metrics_cache.get(key, 0), "items" a loop over dict.items(), "slice" a   *)
(* loop over a [:20] copy, "iter" a loop over the list itself.              *)
(***************************************************************************)
Series == <<
    [metric |-> "pihole_dns_queries_total", global |-> "metrics_cache", how |-> "get", field |-> "dns_queries_total"],
    [metric |-> "pihole_dns_blocked_total", global |-> "metrics_cache", how |-> "get", field |-> "dns_blocked_total"],
    [metric |-> "pihole_dns_forwarded_total", global |-> "metrics_cache", how |-> "get", field |-> "dns_forwarded_total"],
    [metric |-> "pihole_dns_cached_total", global |-> "metrics_cache", how |-> "get", field |-> "dns_cached_total"],
    [metric |-> "pihole_clients_total", global |-> "metrics_cache", how |-> "get", field |-> "clients_total"],
    [metric |-> "pihole_dns_queries_24h", global |-> "metrics_cache", how |-> "get", field |-> "dns_queries_24h"],
    [metric |-> "pihole_dns_blocked_24h", global |-> "metrics_cache", how |-> "get", field |-> "dns_blocked_24h"],
    [metric |-> "pihole_dns_forwarded_24h", global |-> "metrics_cache", how |-> "get", field |-> "dns_forwarded_24h"],
    [metric |-> "pihole_dns_cached_24h", global |-> "metrics_cache", how |-> "get", field |-> "dns_cached_24h"],
    [metric |-> "pihole_clients_24h", global |-> "metrics_cache", how |-> "get", field |-> "clients_24h"],
    [metric |-> "pihole_devices_total", global |-> "metrics_cache", how |-> "get", field |-> "devices_total"],
    [metric |-> "pihole_devices_active_24h", global |-> "metrics_cache", how |-> "get", field |-> "devices_active_24h"],
    [metric |-> "pihole_client_queries_total", global |-> "per_client_metrics", how |-> "items", field |-> "queries"],
    [metric |-> "pihole_client_blocked_total", global |-> "per_client_metrics", how |-> "items", field |-> "blocked"],
    [metric |-> "pihole_client_cached_total", global |-> "per_client_metrics", how |-> "items", field |-> "cached"],
    [metric |-> "pihole_client_forwarded_total", global |-> "per_client_metrics", how |-> "items", field |-> "forwarded"],
    [metric |-> "pihole_domain_queries_total", global |-> "top_domains", how |-> "slice", field |-> "queries"],
    [metric |-> "pihole_domain_blocked_total", global |-> "top_domains", how |-> "slice", field |-> "blocked"],
    [metric |-> "pihole_network_client_queries_total", global |-> "top_clients", how |-> "iter", field |-> "queries"],
    [metric |-> "pihole_query_type_total", global |-> "query_types", how |-> "items", field |-> "count"],
    [metric |-> "pihole_upstream_queries_total", global |-> "upstream_servers", how |-> "items", field |-> "count"],
    [metric |-> "pihole_top_permitted_domains_total", global |-> "top_permitted_domains", how |-> "slice", field |-> "queries"],
    [metric |-> "pihole_top_blocked_domains_total", global |-> "top_blocked_domains", how |-> "slice", field |-> "queries"] >>

\* the [:20] of lines 484, 491, 525 and 533
TopLimit == 20

\* coll[:n]
Take(coll, n) == SubSeq(coll, 1, IF Len(coll) < n THEN Len(coll) ELSE n)

\* the sample line a loop body appends for one element of a collection
SampleLine(sr, e) ==
    CASE sr.global = "per_client_metrics" ->
           <<sr.metric, << <<"client", escape_label_value(e[1])>> >>, e[2][sr.field]>>
      [] sr.global = "query_types" ->
           <<sr.metric, << <<"type", escape_label_value(e[1])>> >>, e[2]>>
      [] sr.global = "upstream_servers" ->
           <<sr.metric, << <<"server", escape_label_value(e[1])>> >>, e[2]>>
      [] sr.global = "top_clients" ->
           <<sr.metric, << <<"mac", escape_label_value(e.mac)>>,
                           <<"name", escape_label_value(e.name)>>,
                           <<"ip", escape_label_value(e.ip)>> >>, e.queries>>
      [] OTHER ->
           <<sr.metric, << <<"domain", escape_label_value(e.domain)>> >>, e[sr.field]>>

\* the sample line of a scalar: metrics_cache.get(key, 0)
ScalarLine(sr, cache) == <<sr.metric, <<>>, Get(cache, sr.field, PyInt(0))>>

\* a loop that runs from the last element to the first, to test that
\* C15_Deterministic sees the order of the lines
SampleLinesBackwards(sr, coll) ==
    [i \in 1..Len(coll) |-> SampleLine(sr, coll[Len(coll) + 1 - i])]

\* the sample lines of a whole loop over coll
SampleLines(sr, coll) == [i \in 1..Len(coll) |-> SampleLine(sr, coll[i])]

\* the sample lines of one series when no other thread runs during its loop
SeriesLines(sr, st) ==
    CASE sr.how = "get" -> <<ScalarLine(sr, st.metrics_cache)>>
      [] sr.how = "slice" -> SampleLines(sr, Take(st[sr.global], TopLimit))
      [] OTHER -> SampleLines(sr, st[sr.global])

\* lines 396-537 run without a thread switch, on the globals st: the sample
\* lines in the order of the text (the fixed HELP and TYPE lines are left out)
RECURSIVE LinesUpTo(_, _)
LinesUpTo(n, st) ==
    IF n = 0 THEN <<>> ELSE LinesUpTo(n - 1, st) \o SeriesLines(Series[n], st)

format_metrics(st) == LinesUpTo(Len(Series), st)

(***************************************************************************)
(* Frames.                                                                 *)
(***************************************************************************)
NoIter == [open |-> FALSE, live |-> FALSE, obj |-> <<>>, used |-> 0, pos |-> 0]

IdleRq == [pc |-> "idle", path |-> "", status |-> 0, body |-> "none", si |-> 0,
           it |-> NoIter, lines |-> <<>>, seen |-> {}, sawPartial |-> FALSE,
           raised |-> FALSE]

NoResults == [i \in 1..Len(CollNames) |-> [done |-> FALSE, rows |-> <<>>]]

\* no answer of an endpoint at hand
NoResponse == [raises |-> FALSE, status_code |-> 0, json |-> <<"none", <<>>>>]

(***************************************************************************)
(* The request of line 147 (lines 123-147).  Strings are sequences of      *)
(* characters; PIHOLE_PROTOCOL, PIHOLE_HOST and PIHOLE_PORT have their     *)
(* defaults of lines 16-19.                                                *)
(***************************************************************************)
\* lines 123-129
urls ==
    <<<<"h", "t", "t", "p", ":", "/", "/", "p", "i", "h", "o", "l", "e", ":",
       "8", "0", "/", "a", "p", "i", "/", "s", "u", "m", "m", "a", "r", "y">>,
     <<"h", "t", "t", "p", ":", "/", "/", "p", "i", "h", "o", "l", "e", ":",
       "8", "0", "/", "a", "p", "i">>,
     <<"h", "t", "t", "p", ":", "/", "/", "p", "i", "h", "o", "l", "e", ":",
       "8", "0", "/", "a", "d", "m", "i", "n", "/", "a", "p", "i", ".", "p",
       "h", "p", "?", "s", "u", "m", "m", "a", "r", "y", "R", "a", "w">>,
     <<"h", "t", "t", "p", ":", "/", "/", "p", "i", "h", "o", "l", "e", ":",
       "8", "0", "/", "a", "d", "m", "i", "n", "/", "a", "p", "i", ".", "p",
       "h", "p", "?", "s", "u", "m", "m", "a", "r", "y">>,
     <<"h", "t", "t", "p", ":", "/", "/", "p", "i", "h", "o", "l", "e", ":",
       "8", "0", "/", "a", "d", "m", "i", "n", "/", "a", "p", "i", ".", "p",
       "h", "p">>>>

\* `sub in s` on strings
Contains(s, sub) ==
    \E i \in 1..(Len(s) - Len(sub) + 1) : SubSeq(s, i, i + Len(sub) - 1) = sub

\* `key in d` on a dict
KeyIn(key, d) == \E i \in 1..Len(d) : d[i][1] = key

\* lines 131-134
AuthHeaders(password) ==
    IF password # <<>>
    THEN << <<"Authorization", <<"B", "e", "a", "r", "e", "r", " ">> \o password>> >>
    ELSE <<>>

NoRequest == [url |-> <<>>, headers |-> <<>>, params |-> <<>>]

\* a request that carries the password as the auth parameter and sets no
\* header, to test that C23_BearerOnly sees the header of line 134
RequestWithParam(password, ep) ==
    [url |-> urls[ep],
     headers |-> <<>>,
     params |-> IF /\ Contains(urls[ep], <<"a", "d", "m", "i", "n", "/", "a", "p", "i", ".", "p", "h", "p">>)
                   /\ Contains(urls[ep], <<"s", "u", "m", "m", "a", "r", "y">>)
                THEN IF password # <<>> THEN << <<"auth", password>> >> ELSE <<>>
                ELSE <<>>]

\* lines 131-147: the arguments of requests.get for endpoints[ep]
Request(password, ep) ==
    LET headers == AuthHeaders(password)
    IN [url |-> urls[ep],
        headers |-> headers,
        params |-> IF /\ Contains(urls[ep], <<"a", "d", "m", "i", "n", "/", "a", "p", "i", ".", "p", "h", "p">>)
                      /\ Contains(urls[ep], <<"s", "u", "m", "m", "a", "r", "y">>)
                      /\ ~KeyIn("Authorization", headers)
                   THEN IF password # <<>> THEN << <<"auth", password>> >> ELSE <<>>
                   ELSE <<>>]

(***************************************************************************)
(* query_ftl_database (lines 37-74).  What the database did is a record:   *)
(* mode is USE_VOLUME_MOUNT, raises says that sqlite3 or subprocess.run    *)
(* raised (no file, SQL error, TimeoutExpired after 10 s), rows are the    *)
(* rows of cursor.fetchall(), and returncode and stdout are those of the   *)
(* helper process, stdout as its lines.  A line is <<"blank", <<>>>>,      *)
(* <<"invalid", <<>>>> for text json.loads rejects, or the JSON value it   *)
(* holds: <<"dict", d>> or <<"list", l>>.                                  *)
(***************************************************************************)
NoRun == [mode |-> "none", raises |-> FALSE, rows |-> <<>>, returncode |-> 0,
          stdout |-> <<>>]

\* line 66: the lines with line.strip() true, in order
RECURSIVE NonBlank(_)
NonBlank(stdout) ==
    IF stdout = <<>> THEN <<>>
    ELSE IF Head(stdout)[1] = "blank" THEN NonBlank(Tail(stdout))
    ELSE <<Head(stdout)>> \o NonBlank(Tail(stdout))

\* lines 39-74: the list the function returns
query_ftl_database(run) ==
    IF run.mode = "volume"
    THEN IF run.raises THEN <<>>
         ELSE [i \in 1..Len(run.rows) |-> <<"dict", run.rows[i]>>]
    ELSE IF run.raises THEN <<>>
    ELSE IF run.returncode = 0 /\ NonBlank(run.stdout) # <<>>
    THEN IF \E i \in 1..Len(run.stdout) : run.stdout[i][1] = "invalid"
         THEN <<>>
         ELSE NonBlank(run.stdout)
    ELSE <<>>

IdleFs == [pc |-> "idle", g |-> 0, rows |-> <<>>, ep |-> 0,
           ret |-> "none", db |-> 0, http |-> 0, stats |-> <<>>, api |-> 0,
           res |-> NoResults, down |-> FALSE, resp |-> NoResponse,
           run |-> NoRun, req |-> NoRequest]

\* the two places that call fetch_pihole_stats: line 576 and line 566
Callers == {"main", "fetcher"}

Older(a) == IF a < MaxAge THEN a + 1 ELSE MaxAge

Init ==
    /\ store = [metrics_cache |-> <<>>, per_client_metrics |-> <<>>,
                top_domains |-> <<>>, top_clients |-> <<>>, query_types |-> <<>>,
                upstream_servers |-> <<>>, top_permitted_domains |-> <<>>,
                top_blocked_domains |-> <<>>, cache_time |-> 0]
    /\ age = [n \in GroupNames \cup {"cache_time"} |-> 0]
    /\ main = "initial_fetch"
    /\ fetcher = "unstarted"
    /\ partial = {}
    /\ faults = 0
    /\ fs = [c \in Callers |-> IdleFs]
    /\ rq = IdleRq

(***************************************************************************)
(* fetch_pihole_stats, lines 77-385.  A frame is at "stats" while it waits *)
(* in the stats query of line 100, at "http" while it waits in the         *)
(* requests.get of line 147 for endpoints[ep], at "query" while it waits   *)
(* in the query of collection CollNames[g], at "fill" inside that          *)
(* collection's loop with `rows` still to go, at "finish" before line 374  *)
(* and at "return" before it returns `ret`.  db and http count the adapter *)
(* calls of the cycle; stats, api and res record what the adapters         *)
(* returned in it, and down that the database is unreachable during it.    *)
(***************************************************************************)
Frame(c) == fs[c]

\* a loop that ends when a cycle has failed, to test that C7_LoopGoesOn sees
\* the loop of lines 565-567 go on
ReturnedOrStopped(c) ==
    /\ main' = IF c = "main" THEN "start_thread" ELSE main
    /\ fetcher' = IF c # "fetcher" THEN fetcher
                  ELSE IF fs[c].ret = "False" THEN "stopped" ELSE "sleep"

\* the caller's position once the call has returned
Returned(c) ==
    /\ main' = IF c = "main" THEN "start_thread" ELSE main
    /\ fetcher' = IF c = "fetcher" THEN "sleep" ELSE fetcher

\* a cycle that stamps cache_time when it starts, to test that
\* C22_StampOnlyAtEnd sees the place of line 374
CallFetchStamp(c) ==
    /\ \/ c = "main" /\ main = "initial_fetch"
       \/ c = "fetcher" /\ fetcher = "loop"
    /\ main' = IF c = "main" THEN "in_fetch" ELSE main
    /\ fetcher' = IF c = "fetcher" THEN "in_fetch" ELSE fetcher
    /\ fs' = [fs EXCEPT ![c] = [IdleFs EXCEPT !.pc = "stats", !.db = 1]]
    /\ store' = [store EXCEPT !.cache_time = 1]
    /\ age' = [n \in DOMAIN age |-> IF n = "cache_time" THEN 0 ELSE Older(age[n])]
    /\ rq' = [rq EXCEPT !.seen = {Older(a) : a \in rq.seen}]
    /\ UNCHANGED <<partial, faults>>

\* lines 566 and 576: the call, up to the blocking stats query of line 100
CallFetch(c) ==
    /\ \/ c = "main" /\ main = "initial_fetch"
       \/ c = "fetcher" /\ fetcher = "loop"
    /\ main' = IF c = "main" THEN "in_fetch" ELSE main
    /\ fetcher' = IF c = "fetcher" THEN "in_fetch" ELSE fetcher
    /\ fs' = [fs EXCEPT ![c] = [IdleFs EXCEPT !.pc = "stats", !.db = 1]]
    /\ age' = [n \in DOMAIN age |-> Older(age[n])]
    /\ rq' = [rq EXCEPT !.seen = {Older(a) : a \in rq.seen}]
    /\ UNCHANGED <<store, partial, faults>>

\* lines 381-385: the handler of the outer try, up to its return statement
Abort(c, f) ==
    fs' = [fs EXCEPT ![c] = [f EXCEPT !.pc = "return", !.ret = "False"]]

\* a cycle that requests the first endpoint whatever the stats query returned,
\* to test that C17_AggregateDefinitive sees the branch of line 102
ToFirstEndpoint(f) ==
    [f EXCEPT !.pc = "http", !.ep = 1, !.http = 1, !.resp = NoResponse]

\* the frame moves on to the query of the first collection (line 229)
ToFirstQuery(f) ==
    [f EXCEPT !.pc = "query", !.g = 1, !.db = f.db + 1, !.resp = NoResponse]

\* lines 100-116: the stats query returns
StatsReturn(c, results) ==
    /\ Frame(c).pc = "stats"
    /\ \E result \in results :
         LET f == [Frame(c) EXCEPT !.stats = result]
         IN IF result = <<>>
            THEN /\ \E down \in BOOLEAN :
                      fs' = [fs EXCEPT ![c] = [f EXCEPT !.pc = "http", !.ep = 1,
                                                        !.http = 1, !.down = down]]
                 /\ UNCHANGED <<store, age>>
            ELSE IF StatsRaises(result[1])
            THEN /\ Abort(c, f)
                 /\ UNCHANGED <<store, age>>
            ELSE /\ store' = [store EXCEPT !.metrics_cache = MetricsFromStats(result[1])]
                 /\ age' = [age EXCEPT !.metrics_cache = 0]
                 /\ fs' = [fs EXCEPT ![c] = ToFirstQuery(f)]
    /\ UNCHANGED <<main, fetcher, partial, rq, faults>>

\* a loop that gives the cycle up when the last endpoint is unusable too, to
\* test that C18_SummaryOverHttp sees the cycle go on to the collections
HttpOutcomeAbort(c, resp) ==
    IF EndpointUsable(resp)
    THEN /\ store' = [store EXCEPT
                        !.metrics_cache = MetricsFromApi(MappedFields(resp.json[2]))]
         /\ age' = [age EXCEPT !.metrics_cache = 0]
         /\ fs' = [fs EXCEPT ![c] = ToFirstQuery([@ EXCEPT !.api = Frame(c).ep])]
    ELSE IF Frame(c).ep < Len(endpoints)
    THEN /\ fs' = [fs EXCEPT ![c].pc = "http", ![c].ep = @ + 1, ![c].http = @ + 1]
         /\ UNCHANGED <<store, age>>
    ELSE /\ Abort(c, Frame(c))
         /\ UNCHANGED <<store, age>>

\* a loop that requests the same endpoint again until it is usable, to test
\* that C19_CycleCompletes sees the loop of line 139 move on
HttpOutcomeRetry(c, resp) ==
    IF EndpointUsable(resp)
    THEN /\ store' = [store EXCEPT
                        !.metrics_cache = MetricsFromApi(MappedFields(resp.json[2]))]
         /\ age' = [age EXCEPT !.metrics_cache = 0]
         /\ fs' = [fs EXCEPT ![c] = ToFirstQuery([@ EXCEPT !.api = Frame(c).ep])]
    ELSE /\ fs' = [fs EXCEPT ![c].pc = "http", ![c].http = @ + 1]
         /\ UNCHANGED <<store, age>>

\* lines 148-212: what the loop body does with the answer resp of endpoints[ep],
\* up to the next requests.get or, after the loop, to the query of line 229
HttpOutcome(c, resp) ==
    IF EndpointUsable(resp)
    THEN /\ store' = [store EXCEPT
                        !.metrics_cache = MetricsFromApi(MappedFields(resp.json[2]))]
         /\ age' = [age EXCEPT !.metrics_cache = 0]
         /\ fs' = [fs EXCEPT ![c] = ToFirstQuery([@ EXCEPT !.api = Frame(c).ep])]
    ELSE IF Frame(c).ep < Len(endpoints)
    THEN /\ fs' = [fs EXCEPT ![c].pc = "http", ![c].ep = @ + 1, ![c].http = @ + 1]
         /\ UNCHANGED <<store, age>>
    ELSE /\ store' = [store EXCEPT !.metrics_cache = ZeroMetrics]
         /\ age' = [age EXCEPT !.metrics_cache = 0]
         /\ fs' = [fs EXCEPT ![c] = ToFirstQuery(@)]

\* lines 139-212: requests.get for endpoints[ep] returns or raises
HttpReturn(c, responses) ==
    /\ Frame(c).pc = "http"
    /\ \E resp \in responses : HttpOutcome(c, resp)
    /\ UNCHANGED <<main, fetcher, partial, rq, faults>>

\* the same in two steps, with the answer kept in the frame: line 147,
\* requests.get returns or raises
HttpAnswer(c, responses) ==
    /\ Frame(c).pc = "http"
    /\ \E resp \in responses : fs' = [fs EXCEPT ![c].pc = "parse", ![c].resp = resp]
    /\ UNCHANGED <<store, age, main, fetcher, partial, rq, faults>>

\* lines 140-147 with the request kept in the frame too; fs.env holds the
\* environment of the process
HttpGet(c, responses) ==
    /\ Frame(c).pc = "http"
    /\ \E resp \in responses :
         fs' = [fs EXCEPT ![c].pc = "parse", ![c].resp = resp,
                          ![c].req = Request(fs.env.PIHOLE_PASSWORD, Frame(c).ep)]
    /\ UNCHANGED <<store, age, main, fetcher, partial, rq, faults>>

\* lines 148-212 on the answer in the frame
HttpParse(c) ==
    /\ Frame(c).pc = "parse"
    /\ HttpOutcome(c, Frame(c).resp)
    /\ UNCHANGED <<main, fetcher, partial, rq, faults>>

\* a frame that skips the remaining collections, to test that C5_SiblingsKept
\* sees the groups after an empty one
AfterGroupStop(f) == [f EXCEPT !.pc = "finish", !.rows = <<>>]

\* the frame has finished the loop of collection g
AfterGroup(f) ==
    IF f.g < Len(CollNames)
    THEN [f EXCEPT !.pc = "query", !.g = f.g + 1, !.db = f.db + 1, !.rows = <<>>]
    ELSE [f EXCEPT !.pc = "finish", !.rows = <<>>]

\* a loop of format_metrics that runs on the object bound to `name` keeps that
\* object when the global is bound to a new one
Detached(r, name) ==
    IF r.it.open /\ r.it.live /\ Series[r.si].global = name
    THEN [r EXCEPT !.it.live = FALSE, !.it.obj = store[name]]
    ELSE r

\* lines 229-230, 255-256, 274-275, 294-295, 322-323, 343-344, 366-367: the
\* query of a collection returns and the global is bound to a new empty object
QueryReturn(c, results, regular) ==
    /\ Frame(c).pc = "query"
    /\ LET name == CollNames[Frame(c).g]
       IN \E rows \in results :
            /\ store' = [store EXCEPT ![name] = <<>>]
            /\ age' = [age EXCEPT ![name] = 0]
            /\ rq' = Detached(rq, name)
            /\ partial' = IF rows = <<>> THEN partial \ {name} ELSE partial \cup {name}
            /\ faults' = IF rows = regular \/ Frame(c).down THEN faults ELSE faults + 1
            /\ LET f == [Frame(c) EXCEPT !.res[Frame(c).g] = [done |-> TRUE, rows |-> rows]]
               IN fs' = [fs EXCEPT ![c] = IF rows = <<>> THEN AfterGroup(f)
                                           ELSE [f EXCEPT !.pc = "fill", !.rows = rows]]
    /\ UNCHANGED <<main, fetcher>>

\* one pass of a collection's loop body (lines 231-238, 257-262, 276-282,
\* 303-306, 324-326, 345-349, 368-372)
FillRow(c) ==
    /\ Frame(c).pc = "fill"
    /\ LET name == CollNames[Frame(c).g]
           row == Head(Frame(c).rows)
       IN IF RowRaises(name, row)
          THEN /\ Abort(c, Frame(c))
               /\ UNCHANGED <<store, partial>>
          ELSE /\ store' = [store EXCEPT ![name] = Insert(name, @, row)]
               /\ IF Tail(Frame(c).rows) = <<>>
                  THEN /\ partial' = partial \ {name}
                       /\ fs' = [fs EXCEPT ![c] = AfterGroup(@)]
                  ELSE /\ partial' = partial
                       /\ fs' = [fs EXCEPT ![c].rows = Tail(@)]
    /\ UNCHANGED <<main, fetcher, age, rq, faults>>

\* lines 374-379, up to the return statement
FinishCycle(c) ==
    /\ Frame(c).pc = "finish"
    /\ store' = [store EXCEPT !.cache_time = 1]
    /\ age' = [age EXCEPT !.cache_time = 0]
    /\ fs' = [fs EXCEPT ![c].pc = "return", ![c].ret = "True"]
    /\ UNCHANGED <<main, fetcher, partial, rq, faults>>

\* lines 379 and 385: the call returns to line 577 or to line 567
Return(c) ==
    /\ Frame(c).pc = "return"
    /\ fs' = [fs EXCEPT ![c] = IdleFs]
    /\ Returned(c)
    /\ UNCHANGED <<store, age, partial, rq, faults>>

(***************************************************************************)
(* __main__ (lines 570-585) and background_fetcher (lines 563-567).        *)
(***************************************************************************)
\* a thread started before the start-up call, to test that C21_OneCycleInFlight
\* sees the order of lines 576-580
StartThreadFirst ==
    /\ main = "initial_fetch"
    /\ fetcher = "unstarted"
    /\ fetcher' = "loop"
    /\ UNCHANGED <<store, age, main, partial, fs, rq, faults>>

\* lines 579-580
StartThread ==
    /\ main = "start_thread"
    /\ main' = "start_server"
    /\ fetcher' = "loop"
    /\ UNCHANGED <<store, age, partial, fs, rq, faults>>

\* a server started without the start-up call, to test that
\* C8_FetchBeforeServing sees the order of lines 576-585
ServeAtOnce ==
    /\ main \in {"initial_fetch", "start_server"}
    /\ main' = "serve_forever"
    /\ UNCHANGED <<store, age, fetcher, partial, fs, rq, faults>>

\* lines 583-585
ServeForever ==
    /\ main = "start_server"
    /\ main' = "serve_forever"
    /\ UNCHANGED <<store, age, fetcher, partial, fs, rq, faults>>

\* line 567: time.sleep(CACHE_TTL) returns
Wake ==
    /\ fetcher = "sleep"
    /\ fetcher' = "loop"
    /\ UNCHANGED <<store, age, main, partial, fs, rq, faults>>

(***************************************************************************)
(* MetricsHandler.do_GET, lines 543-556.  HTTPServer handles one request   *)
(* at a time.  do_GET is the handler run without a thread switch; its      *)
(* text is format_metrics of the globals.                                  *)
(***************************************************************************)
Paths == {"/metrics", "/health", "/"}

\* a handler whose last branch answers as /health does, to test that
\* C12_Dispatch sees the 404 of lines 554-556
do_GET_no_404(path) ==
    /\ main = "serve_forever"
    /\ rq.pc = "idle"
    /\ rq' = CASE path = "/metrics" ->
                    [IdleRq EXCEPT !.pc = "done", !.path = path, !.status = 200,
                                   !.body = "metrics", !.lines = format_metrics(store),
                                   !.seen = {age[n] : n \in GroupNames},
                                   !.sawPartial = partial # {}]
               [] OTHER ->
                    [IdleRq EXCEPT !.pc = "done", !.path = path, !.status = 200, !.body = "OK"]
    /\ UNCHANGED <<store, age, main, fetcher, partial, fs, faults>>

do_GET(path) ==
    /\ main = "serve_forever"
    /\ rq.pc = "idle"
    /\ rq' = CASE path = "/metrics" ->
                    [IdleRq EXCEPT !.pc = "done", !.path = path, !.status = 200,
                                   !.body = "metrics", !.lines = format_metrics(store),
                                   !.seen = {age[n] : n \in GroupNames},
                                   !.sawPartial = partial # {}]
               [] path = "/health" ->
                    [IdleRq EXCEPT !.pc = "done", !.path = path, !.status = 200, !.body = "OK"]
               [] OTHER ->
                    [IdleRq EXCEPT !.pc = "done", !.path = path, !.status = 404, !.body = "empty"]
    /\ UNCHANGED <<store, age, main, fetcher, partial, fs, faults>>

\* the handler returns and the server waits for the next request
Close ==
    /\ rq.pc = "done"
    /\ rq' = IdleRq
    /\ UNCHANGED <<store, age, main, fetcher, partial, fs, faults>>

(***************************************************************************)
(* The same handler with the thread switches of the interpreter: between   *)
(* two reads of a global the fetcher thread may run.  These actions follow *)
(* which object every read of format_metrics gets (seen, sawPartial,       *)
(* raised); they do not build the text.                                    *)
(***************************************************************************)
\* a handler that waits until no cycle is running, to test that
\* C9_ScrapeIndependent sees a scrape wait
AcceptWhenQuiet(path) ==
    /\ main = "serve_forever"
    /\ rq.pc = "idle"
    /\ \A c \in Callers : fs[c].pc = "idle"
    /\ rq' = CASE path = "/metrics" ->
                    [IdleRq EXCEPT !.pc = "format", !.path = path, !.status = 200, !.si = 1]
               [] path = "/health" ->
                    [IdleRq EXCEPT !.pc = "done", !.path = path, !.status = 200, !.body = "OK"]
               [] OTHER ->
                    [IdleRq EXCEPT !.pc = "done", !.path = path, !.status = 404, !.body = "empty"]
    /\ UNCHANGED <<store, age, main, fetcher, partial, fs, faults>>

\* lines 543-548, up to the call of format_metrics
Accept(path) ==
    /\ main = "serve_forever"
    /\ rq.pc = "idle"
    /\ rq' = CASE path = "/metrics" ->
                    [IdleRq EXCEPT !.pc = "format", !.path = path, !.status = 200, !.si = 1]
               [] path = "/health" ->
                    [IdleRq EXCEPT !.pc = "done", !.path = path, !.status = 200, !.body = "OK"]
               [] OTHER ->
                    [IdleRq EXCEPT !.pc = "done", !.path = path, !.status = 404, !.body = "empty"]
    /\ UNCHANGED <<store, age, main, fetcher, partial, fs, faults>>

\* format_metrics goes on to the next series; after the last one line 537
\* returns the text and line 548 writes it
NextSeries(r) ==
    IF r.si < Len(Series)
    THEN [r EXCEPT !.si = r.si + 1, !.it = NoIter]
    ELSE [r EXCEPT !.pc = "done", !.body = "metrics", !.it = NoIter]

\* what a read of the global `name` adds to the record of the scrape
Noted(r, name) ==
    [r EXCEPT !.seen = @ \cup {age[name]},
              !.sawPartial = @ \/ (name \in partial)]

\* one f-string of lines 401-450: metrics_cache.get(key, 0)
ReadScalar ==
    /\ rq.pc = "format"
    /\ Series[rq.si].how = "get"
    /\ rq' = NextSeries(Noted(rq, "metrics_cache"))
    /\ UNCHANGED <<store, age, main, fetcher, partial, fs, faults>>

\* lines 484-486, 491-493, 525-527, 533-535: the [:20] copy is made; the loop
\* over the copy reads no global
ReadSlice ==
    /\ rq.pc = "format"
    /\ Series[rq.si].how = "slice"
    /\ rq' = NextSeries(Noted(rq, Series[rq.si].global))
    /\ UNCHANGED <<store, age, main, fetcher, partial, fs, faults>>

\* lines 455, 462, 469, 476, 499, 509, 517: the global is read and the
\* iterator over its object is made
OpenLoop ==
    /\ rq.pc = "format"
    /\ Series[rq.si].how \in {"items", "iter"}
    /\ ~rq.it.open
    /\ LET sr == Series[rq.si]
       IN rq' = [Noted(rq, sr.global) EXCEPT
                   !.it = [open |-> TRUE, live |-> TRUE, obj |-> <<>>,
                           used |-> Len(store[sr.global]), pos |-> 0]]
    /\ UNCHANGED <<store, age, main, fetcher, partial, fs, faults>>

\* the object a running loop iterates
Iterated(r) == IF r.it.live THEN store[Series[r.si].global] ELSE r.it.obj

\* the next() of a dict iterator raises RuntimeError when the dict has changed
\* size since the iterator was made; a list iterator never raises
NextRaises(r) == Series[r.si].how = "items" /\ Len(Iterated(r)) # r.it.used

\* one next() of the loop's iterator and, if it yields, the loop body; an
\* exception leaves do_GET before line 548 has written the text
StepLoop ==
    /\ rq.pc = "format"
    /\ rq.it.open
    /\ IF NextRaises(rq)
       THEN rq' = [rq EXCEPT !.pc = "done", !.raised = TRUE, !.it = NoIter]
       ELSE IF rq.it.pos < Len(Iterated(rq))
       THEN rq' = [rq EXCEPT !.it.pos = @ + 1,
                             !.sawPartial = @ \/ (rq.it.live /\ Series[rq.si].global \in partial)]
       ELSE rq' = NextSeries(rq)
    /\ UNCHANGED <<store, age, main, fetcher, partial, fs, faults>>

Serve ==
    \/ \E path \in Paths : Accept(path)
    \/ ReadScalar
    \/ ReadSlice
    \/ OpenLoop
    \/ StepLoop
    \/ Close

(***************************************************************************)
(* What the adapters return in the interleaved model.                      *)
(***************************************************************************)
\* the aggregate row of the spec's scenario A, and one with a null column
StatsRowA == [queries_total |-> PyInt(100), blocked_total |-> PyInt(10),
              forwarded_total |-> PyInt(50), cached_total |-> PyInt(40),
              unique_clients_total |-> PyInt(3)]

StatsRowNull == [queries_total |-> PyNone]

StatsResults == {<<>>, <<StatsRowA>>, <<StatsRowNull>>}

Response(status, json) == [raises |-> FALSE, status_code |-> status, json |-> json]

Responses ==
    { [raises |-> TRUE, status_code |-> 0, json |-> <<"invalid", <<>>>>],
      Response(503, <<"invalid", <<>>>>),
      Response(200, <<"invalid", <<>>>>),
      Response(200, <<"list", <<>>>>),
      Response(200, <<"dict", <<>>>>),
      Response(200, <<"dict", << <<"dns_queries_today", PyInt(0)>> >> >>),
      Response(200, <<"dict", << <<"dns_queries_today", PyInt(7)>>,
                                 <<"ads_blocked_today", PyInt(2)>> >> >>),
      Response(200, <<"dict", << <<"summary",
                                   <<"dict", << <<"unique_clients", PyInt(4)>> >> >> >> >> >>) }

\* the i-th row of a collection query's answer; `count` is the value of its
\* counting column
Row(name, i, count) ==
    CASE name = "per_client_metrics" ->
           [client |-> PyStr(<<"c">> \o IntStr(i)), queries |-> count, blocked |-> PyInt(1)]
      [] name = "top_clients" ->
           [hwaddr |-> PyStr(<<"m">> \o IntStr(i)), macVendor |-> PyNone, numQueries |-> count]
      [] name = "query_types" ->
           [type |-> PyInt(i), count |-> count]
      [] name = "upstream_servers" ->
           [forward |-> PyStr(<<"u">> \o IntStr(i)), count |-> count]
      [] OTHER ->
           [domain |-> PyStr(<<"d">> \o IntStr(i)), queries |-> count, blocked |-> PyInt(1)]

\* the first n rows of a healthy answer of `total` rows, in descending order
\* of the count as the ORDER BY of the queries gives them
GoodRows(name, n, total) == [i \in 1..n |-> Row(name, i, PyInt(total + 1 - i))]

\* a row whose counting column is null
NullRow(name, i) == Row(name, i, PyNone)

\* the answer of a healthy database: MaxRows rows
Regular(name) == GoodRows(name, MaxRows, MaxRows)

\* the answers of a collection query: the healthy one, a shorter one (none at
\* all when the query fails), or one that ends in a row with a null column
Results(name) ==
    {GoodRows(name, n, MaxRows) : n \in 0..MaxRows}
    \cup {Append(GoodRows(name, n - 1, MaxRows), NullRow(name, n)) : n \in 1..MaxRows}

\* what a collection query may return: nothing while the database is down
\* (the stats query of the cycle returned nothing either), and else any result
\* until `budget` answers other than the healthy one have been given
Allowed(c, results, regular, budget) ==
    IF Frame(c).down THEN {<<>>}
    ELSE IF faults < budget THEN results
    ELSE {regular}

Refresh(c, budget) ==
    \/ CallFetch(c)
    \/ StatsReturn(c, StatsResults)
    \/ HttpReturn(c, Responses)
    \/ QueryReturn(c, Allowed(c, Results(CollNames[Frame(c).g]),
                              Regular(CollNames[Frame(c).g]), budget),
                   Regular(CollNames[Frame(c).g]))
    \/ FillRow(c)
    \/ FinishCycle(c)
    \/ Return(c)

Control ==
    \/ StartThread
    \/ ServeForever
    \/ Wake

\* The program with the thread switches inside format_metrics.  The stats
\* query and the HTTP endpoints answer freely; the collection queries answer as
\* a healthy database does, or not at all while it is down.
Next ==
    \/ \E c \in Callers : Refresh(c, 0)
    \/ Control
    \/ Serve

Spec == Init /\ [][Next]_vars

\* The refresh cycles alone, with up to MaxFaults unhealthy collection answers.
NextCycle ==
    \/ \E c \in Callers : Refresh(c, MaxFaults)
    \/ Control

SpecCycle == Init /\ [][NextCycle]_vars

\* The refresh cycles with the scheduling the code has: every adapter call
\* returns or hits its timeout (lines 62 and 147), time.sleep returns, and a
\* thread that can run does run.  The stats query and the endpoints answer
\* freely, so that a cycle may fail every time; the collection queries answer as
\* in Spec.
MainThread == Refresh("main", 0) \/ StartThread \/ ServeForever

FetcherThread == Refresh("fetcher", 0) \/ Wake

NextLive == MainThread \/ FetcherThread

SpecLive == Init /\ [][NextLive]_vars /\ WF_vars(MainThread) /\ WF_vars(FetcherThread)

\* rows of the stats query: one with three columns only (100, 10 and 3), one
\* with the columns of the last 24 hours as well, and one with no column
StatsRowShort == [queries_total |-> PyInt(100), blocked_total |-> PyInt(10),
                  unique_clients_total |-> PyInt(3)]

StatsRowB == [queries_total |-> PyInt(7), blocked_total |-> PyInt(2),
              forwarded_total |-> PyInt(4), cached_total |-> PyInt(1),
              unique_clients_total |-> PyInt(1), queries_24h |-> PyInt(5),
              blocked_24h |-> PyInt(1), forwarded_24h |-> PyInt(3),
              cached_24h |-> PyInt(1), unique_clients_24h |-> PyInt(1),
              devices_total |-> PyInt(6), devices_active_24h |-> PyInt(2)]

StatsRowEmpty == <<>>

\* what the stats query may return, results of more than one row included
StatsInputs ==
    StatsResults \cup {<<StatsRowShort>>, <<StatsRowB>>, <<StatsRowEmpty>>,
                       <<StatsRowB, StatsRowA>>, <<StatsRowShort, StatsRowNull>>}

\* The refresh cycles on any of these stats results, with collection queries
\* that answer as a healthy database does.
NextStats ==
    \/ \E c \in Callers :
          \/ CallFetch(c)
          \/ StatsReturn(c, StatsInputs)
          \/ HttpReturn(c, Responses)
          \/ QueryReturn(c, Allowed(c, Results(CollNames[Frame(c).g]),
                                    Regular(CollNames[Frame(c).g]), 0),
                         Regular(CollNames[Frame(c).g]))
          \/ FillRow(c)
          \/ FinishCycle(c)
          \/ Return(c)
    \/ Control

SpecStats == Init /\ [][NextStats]_vars

\* the three lists of domains
DomainLists == {"top_domains", "top_permitted_domains", "top_blocked_domains"}

\* answers to a domain query handed to the loops in any order: rows with the
\* counts 5, 3 and 5
OrderAnswers(name) ==
    LET r1 == Row(name, 1, PyInt(5))
        r2 == Row(name, 2, PyInt(3))
        r3 == Row(name, 3, PyInt(5))
    IN IF name \in DomainLists
       THEN {Regular(name), <<r1, r2>>, <<r2, r1>>, <<r1, r3>>}
       ELSE {Regular(name)}

\* The refresh cycles with a stub in the place of query_ftl_database that
\* returns the rows of the domain queries in any order, up to MaxFaults times
\* another answer than the healthy one.
NextOrder ==
    \/ \E c \in Callers :
          \/ CallFetch(c)
          \/ StatsReturn(c, {<<StatsRowA>>})
          \/ QueryReturn(c, Allowed(c, OrderAnswers(CollNames[Frame(c).g]),
                                    Regular(CollNames[Frame(c).g]), MaxFaults),
                         Regular(CollNames[Frame(c).g]))
          \/ FillRow(c)
          \/ FinishCycle(c)
          \/ Return(c)
    \/ Control

SpecOrder == Init /\ [][NextOrder]_vars

\* The refresh cycles with the answer of every endpoint kept in the frame until
\* the next request; the collection queries answer as in Spec.
NextHttp ==
    \/ \E c \in Callers :
          \/ CallFetch(c)
          \/ StatsReturn(c, StatsResults)
          \/ HttpAnswer(c, Responses)
          \/ HttpParse(c)
          \/ QueryReturn(c, Allowed(c, Results(CollNames[Frame(c).g]),
                                    Regular(CollNames[Frame(c).g]), 0),
                         Regular(CollNames[Frame(c).g]))
          \/ FillRow(c)
          \/ FinishCycle(c)
          \/ Return(c)
    \/ Control

SpecHttp == Init /\ [][NextHttp]_vars

\* The stats query of a cycle with what the database did kept in the frame:
\* rows and lines of output up to MaxLines.
MaxLines == 2

\* the i-th row of a result, as a dict
DbRow(i) == << <<"n", PyInt(i)>> >>

\* a line of output of the helper: blank, not JSON, one row as a JSON object,
\* or the whole result as a JSON array
Lines == {<<"blank", <<>>>>, <<"invalid", <<>>>>, <<"list", <<>>>>}
         \cup {<<"dict", DbRow(i)>> : i \in 1..MaxLines}

RECURSIVE SeqsUpTo(_, _)
SeqsUpTo(S, n) ==
    IF n = 0 THEN {<<>>}
    ELSE SeqsUpTo(S, n - 1)
         \cup {Append(q, x) : q \in {r \in SeqsUpTo(S, n - 1) : Len(r) = n - 1}, x \in S}

Runs ==
    {[mode |-> "volume", raises |-> r, rows |-> [i \in 1..n |-> DbRow(i)],
      returncode |-> 0, stdout |-> <<>>] : r \in BOOLEAN, n \in 0..MaxLines}
    \cup {[mode |-> "docker", raises |-> r, rows |-> <<>>, returncode |-> rc,
           stdout |-> out] : r \in BOOLEAN, rc \in {0, 1}, out \in SeqsUpTo(Lines, MaxLines)}

\* lines 40-62: the database or the helper process has done its part
DatabaseDone(c, runs) ==
    /\ Frame(c).pc = "stats"
    /\ \E run \in runs : fs' = [fs EXCEPT ![c].pc = "adapter", ![c].run = run]
    /\ UNCHANGED <<store, age, main, fetcher, partial, rq, faults>>

\* lines 50, 63-74: query_ftl_database returns to line 100
AdapterReturn(c) ==
    /\ Frame(c).pc = "adapter"
    /\ fs' = [fs EXCEPT ![c].pc = "adapter_done",
                        ![c].stats = query_ftl_database(Frame(c).run)]
    /\ UNCHANGED <<store, age, main, fetcher, partial, rq, faults>>

NextQuery ==
    \E c \in Callers :
       \/ CallFetch(c)
       \/ DatabaseDone(c, Runs)
       \/ AdapterReturn(c)

SpecQuery == Init /\ [][NextQuery]_vars

\* The refresh cycles of a process started with any of these values of
\* PIHOLE_PASSWORD (line 18), with every request kept in the frame.
Passwords == {<<>>, <<"p">>, <<"p", "w">>}

InitAuth ==
    /\ store = [metrics_cache |-> <<>>, per_client_metrics |-> <<>>,
                top_domains |-> <<>>, top_clients |-> <<>>, query_types |-> <<>>,
                upstream_servers |-> <<>>, top_permitted_domains |-> <<>>,
                top_blocked_domains |-> <<>>, cache_time |-> 0]
    /\ age = [n \in GroupNames \cup {"cache_time"} |-> 0]
    /\ main = "initial_fetch"
    /\ fetcher = "unstarted"
    /\ partial = {}
    /\ faults = 0
    /\ \E password \in Passwords :
         fs = [c \in Callers \cup {"env"} |->
                 IF c = "env" THEN [PIHOLE_PASSWORD |-> password] ELSE IdleFs]
    /\ rq = IdleRq

NextAuth ==
    \/ \E c \in Callers :
          \/ CallFetch(c)
          \/ StatsReturn(c, StatsResults)
          \/ HttpGet(c, Responses)
          \/ HttpParse(c)
          \/ QueryReturn(c, Allowed(c, Results(CollNames[Frame(c).g]),
                                    Regular(CollNames[Frame(c).g]), 0),
                         Regular(CollNames[Frame(c).g]))
          \/ FillRow(c)
          \/ FinishCycle(c)
          \/ Return(c)
    \/ Control

SpecAuth == InitAuth /\ [][NextAuth]_vars

\* LIMIT 50 of the collection queries (lines 226, 252, 271, 340, 363)
SqlLimit == 50

\* the globals after a cycle on a healthy database whose collections have n rows
Snapshot(n) ==
    [name \in GroupNames \cup {"cache_time"} |->
        CASE name = "metrics_cache" -> MetricsFromStats(StatsRowA)
          [] name = "cache_time" -> 1
          [] OTHER -> Filled(name, <<>>, GoodRows(name, n, n))]

\* The encoder alone: the server handles requests on a snapshot of any size up
\* to the LIMIT of the queries while the fetcher sleeps.
InitEnc ==
    /\ \E n \in 0..SqlLimit : store = Snapshot(n)
    /\ age = [n \in GroupNames \cup {"cache_time"} |-> 0]
    /\ main = "serve_forever"
    /\ fetcher = "sleep"
    /\ partial = {}
    /\ faults = 0
    /\ fs = [c \in Callers |-> IdleFs]
    /\ rq = IdleRq

NextEnc ==
    \/ \E path \in Paths : do_GET(path)
    \/ Close

SpecEnc == InitEnc /\ [][NextEnc]_vars

\* the characters of label values: the three that are escaped and one that is not
LabelChars == {"a", "\\", "\"", "\n"}

\* the longest label value drawn from LabelChars
MaxLen == 3

\* the client label of the spec's scenario C: foo"bar\baz
ScenarioC == <<"f", "o", "o", "\"", "b", "a", "r", "\\", "b", "a", "z">>

\* the values escape_label_value is called with: None (a null column), and str
LabelValues ==
    {PyNone} \cup {PyStr(ScenarioC)}
        \cup {PyStr(t) : t \in UNION {[1..k -> LabelChars] : k \in 0..MaxLen}}

\* the globals after a cycle whose per-client query returned one row with the
\* client v and whose other collection queries returned nothing
LabelSnapshot(v) ==
    [Snapshot(0) EXCEPT !.per_client_metrics =
        Filled("per_client_metrics", <<>>,
               <<[client |-> v, queries |-> PyInt(1), blocked |-> PyInt(0)]>>)]

\* The encoder on a client label of any content.
InitLabel ==
    /\ \E v \in LabelValues : store = LabelSnapshot(v)
    /\ age = [n \in GroupNames \cup {"cache_time"} |-> 0]
    /\ main = "serve_forever"
    /\ fetcher = "sleep"
    /\ partial = {}
    /\ faults = 0
    /\ fs = [c \in Callers |-> IdleFs]
    /\ rq = IdleRq

SpecLabel == InitLabel /\ [][NextEnc]_vars

(***************************************************************************)
(* Properties of a scrape that runs while a cycle may be in flight (Spec). *)
(***************************************************************************)
\* a GET /metrics has been answered
Scraped == rq.pc = "done" /\ rq.path = "/metrics"

\* C1: every finished scrape has read all its metric groups from objects bound
\* in one and the same cycle: it has seen one age only.  (Stated for the
\* scrapes after a cycle has run to its end, when every global has been bound
\* by a cycle.)
C1_OneCycle ==
    (Scraped /\ ~rq.raised /\ store.cache_time # 0) => Cardinality(rq.seen) <= 1

\* C2: no read of format_metrics gets a collection that a cycle has emptied and
\* not yet refilled with the whole result.
C2_NoPartialRead == ~rq.sawPartial

\* C3: every answered GET /metrics has status 200 and the whole text of
\* format_metrics as its body; format_metrics has not raised.
C3_AlwaysBody == Scraped => (rq.status = 200 /\ rq.body = "metrics" /\ ~rq.raised)

(***************************************************************************)
(* Properties of a refresh cycle (SpecCycle).  A frame at "return" has     *)
(* made all the writes of its cycle.                                       *)
(***************************************************************************)
Ended(c) == Frame(c).pc = "return"

\* the stats query returned no row and no endpoint was usable
NoAggregate(c) == Ended(c) /\ Frame(c).stats = <<>> /\ Frame(c).api = 0

AllZero(cache) == \A k \in MetricKeys : k \in DOMAIN cache /\ cache[k] = PyFloat(0)

FirstLineZero == format_metrics(store)[1] = <<"pihole_dns_queries_total", <<>>, PyFloat(0)>>

Completed(c, i) ==
    Frame(c).res[i].done /\ (i < Frame(c).g \/ Frame(c).ret = "True")

\* C5: after a cycle whose stats query returned a row and in which the query of
\* a collection k returned nothing, the scalars are the values of that row, k is
\* empty, the cycle has not ended at k, and every other collection whose loop
\* the cycle ran holds exactly the rows its own query returned; a cycle that
\* returns True has run them all.
C5_SiblingsKept ==
    \A c \in Callers : \A k \in 1..Len(CollNames) :
        (Ended(c) /\ Frame(c).stats # <<>> /\ Frame(c).g >= 1
            /\ Frame(c).res[k].done /\ Frame(c).res[k].rows = <<>>) =>
            /\ store.metrics_cache = MetricsFromStats(Frame(c).stats[1])
            /\ store[CollNames[k]] = <<>>
            /\ Frame(c).ret = "False" => Frame(c).g # k
            /\ \A i \in 1..Len(CollNames) :
                   /\ Frame(c).ret = "True" => Frame(c).res[i].done
                   /\ Completed(c, i) =>
                          store[CollNames[i]] = Filled(CollNames[i], <<>>, Frame(c).res[i].rows)

\* the case of C5: the stats row is there, one collection query has failed and
\* the others have returned their rows
C5_Witness ==
    \E c \in Callers : \E k \in 1..Len(CollNames) :
        /\ Ended(c) /\ Frame(c).ret = "True" /\ Frame(c).stats # <<>>
        /\ Frame(c).res[k].rows = <<>>
        /\ \A i \in 1..Len(CollNames) : i # k => store[CollNames[i]] # <<>>

\* C6: after every cycle, however it ends, every group was bound in that cycle
\* or holds its default.
C6_NothingStale ==
    \A c \in Callers :
        Ended(c) =>
            \A name \in GroupNames :
                \/ age[name] = 0
                \/ store[name] = <<>>
                \/ (name = "metrics_cache" /\ AllZero(store[name]))

(***************************************************************************)
(* The background loop (SpecLive).                                         *)
(***************************************************************************)
\* a cycle has failed: it returns False
Failed(c) == Ended(c) /\ Frame(c).ret = "False"

\* C7: after a failed cycle, of the start-up call or of the loop, the loop
\* starts a further cycle, and the main thread, once in serve_forever, stays
\* there.
C7_LoopGoesOn ==
    /\ \A c \in Callers : Failed(c) ~> (Frame("fetcher").pc = "stats")
    /\ [](main = "serve_forever" => [](main = "serve_forever"))

\* a cycle of the loop has failed after a failed start-up call, while the
\* server runs
C7_Witness == Failed("fetcher") /\ store.cache_time = 0 /\ main = "serve_forever"

(***************************************************************************)
(* Start-up and the request path (Spec).                                   *)
(***************************************************************************)
\* the start-up call of line 576 has been made: CallFetch ages the initial
\* objects, and only a cycle that ran to its end sets cache_time
FirstCycleStarted == age.cache_time # 0 \/ store.cache_time # 0

FirstCycleEnded == FirstCycleStarted /\ Frame("main").pc = "idle" /\ main # "in_fetch"

\* C8: the fetcher thread is started, the server is started and a request is
\* handled only after the start-up call of fetch_pihole_stats has returned.
C8_FetchBeforeServing ==
    (fetcher # "unstarted" \/ main = "serve_forever" \/ rq.pc # "idle") => FirstCycleEnded

\* a request is being handled right after start-up
C8_Witness == rq.pc = "format" /\ FirstCycleEnded /\ fetcher = "loop"

\* one step of the handler (the fetcher's steps change other fields of rq)
HandlerStep ==
    \/ rq'.pc # rq.pc
    \/ rq'.si # rq.si
    \/ rq'.it.open # rq.it.open
    \/ rq'.it.pos # rq.it.pos

InFormat == ReadScalar \/ ReadSlice \/ OpenLoop \/ StepLoop

\* C9: the handler can always take its next step, whatever the position of a
\* refresh cycle, and its steps make no adapter call: they leave the frames of
\* fetch_pihole_stats (and the globals) as they are.
C9_ScrapeIndependent ==
    /\ [](rq.pc = "format" => ENABLED InFormat)
    /\ []((main = "serve_forever" /\ rq.pc = "idle") => ENABLED Accept("/metrics"))
    /\ [][HandlerStep => UNCHANGED <<fs, store>>]_vars

\* a scrape is in progress while a cycle waits in an adapter call
C9_Witness ==
    /\ rq.pc = "format" /\ rq.si > 1
    /\ Frame("fetcher").pc \in {"stats", "http", "query"}

(***************************************************************************)
(* The encoder (SpecEnc).                                                  *)
(***************************************************************************)
\* the number of sample lines of a series in a text
Emitted(lines, metric) == Cardinality({i \in 1..Len(lines) : lines[i][1] = metric})

\* C10: the text of every snapshot has at most 20 sample lines of each domain
\* series and of the network client series.
C10_AtMostTwenty ==
    (rq.pc = "done" /\ rq.body = "metrics") =>
        \A metric \in {"pihole_domain_queries_total", "pihole_domain_blocked_total",
                       "pihole_top_permitted_domains_total",
                       "pihole_top_blocked_domains_total",
                       "pihole_network_client_queries_total"} :
            Emitted(rq.lines, metric) <= 20

(***************************************************************************)
(* Label values (SpecLabel).                                               *)
(***************************************************************************)
\* what one character of a label value must become
EscapedChar(ch) ==
    CASE ch = "\\" -> <<"\\", "\\">>
      [] ch = "\"" -> <<"\\", "\"">>
      [] ch = "\n" -> <<"\\", "n">>
      [] OTHER -> <<ch>>

RECURSIVE EscapedUpTo(_, _)
EscapedUpTo(t, n) == IF n = 0 THEN <<>> ELSE EscapedUpTo(t, n - 1) \o EscapedChar(t[n])

\* the number of backslashes that stand right before position i of t
BackslashesBefore(t, i) ==
    CHOOSE k \in 0..(i - 1) :
        /\ \A j \in (i - k)..(i - 1) : t[j] = "\\"
        /\ k = i - 1 \/ t[i - k - 1] # "\\"

\* t has a newline, or a double quote with no escaping backslash before it
Unescaped(t) ==
    \E i \in 1..Len(t) :
        \/ t[i] = "\n"
        \/ t[i] = "\"" /\ BackslashesBefore(t, i) % 2 = 0

\* the client label of the first per-client line of the text
RenderedClient == SelectSeq(rq.lines, LAMBDA l : l[1] = "pihole_client_queries_total")[1][2][1][2]

\* C11: the label rendered for a client value has no newline and no double quote
\* without its escaping backslash; it is the value with every backslash doubled,
\* every double quote turned into backslash-quote and every newline into
\* backslash-n (None is rendered as unknown), and foo"bar\baz is rendered as
\* foo\"bar\\baz.
C11_LabelsEscaped ==
    (Scraped /\ store.per_client_metrics # <<>>) =>
        LET v == store.per_client_metrics[1][1]
        IN /\ ~Unescaped(RenderedClient)
           /\ v # PyNone => RenderedClient = EscapedUpTo(v[2], Len(v[2]))
           /\ v = PyNone => RenderedClient = Unknown
           /\ v = PyStr(ScenarioC) =>
                  RenderedClient = <<"f", "o", "o", "\\", "\"", "b", "a", "r",
                                     "\\", "\\", "b", "a", "z">>

\* a scrape has rendered a client whose name has a backslash, a double quote
\* and a newline
C11_Witness ==
    /\ Scraped /\ store.per_client_metrics # <<>>
    /\ store.per_client_metrics[1][1] # PyNone
    /\ {"\\", "\"", "\n"} \subseteq
           {store.per_client_metrics[1][1][2][i] :
                i \in 1..Len(store.per_client_metrics[1][1][2])}
    /\ Len(RenderedClient) = 6

(***************************************************************************)
(* The dispatcher (SpecEnc).                                               *)
(***************************************************************************)
\* the handler has answered without a read of a global
NothingRead == rq.lines = <<>> /\ rq.seen = {} /\ ~rq.sawPartial

FromStats(c) == Frame(c).pc # "idle" /\ Frame(c).stats # <<>> /\ Frame(c).g >= 1

\* the float of a column of the row, 0.0 when the row lacks the column
Taken(row, column) ==
    IF column \in DOMAIN row THEN <<"float", row[column][2]>> ELSE <<"float", 0>>

\* C13: from the moment a cycle has bound metrics_cache from a stats result
\* until the cycle returns, the scalars are those of the first row of the
\* result, 0.0 where the row lacks the column; the row 100, 10, 3 gives 100.0,
\* 10.0 and 3.0.
C13_ScalarsFromRow ==
    \A c \in Callers :
        FromStats(c) =>
            LET row == Frame(c).stats[1]
                cache == store.metrics_cache
            IN /\ cache.dns_queries_total = Taken(row, "queries_total")
               /\ cache.dns_blocked_total = Taken(row, "blocked_total")
               /\ cache.dns_forwarded_total = Taken(row, "forwarded_total")
               /\ cache.dns_cached_total = Taken(row, "cached_total")
               /\ cache.clients_total = Taken(row, "unique_clients_total")
               /\ row = StatsRowShort =>
                      /\ cache.dns_queries_total = <<"float", 100>>
                      /\ cache.dns_blocked_total = <<"float", 10>>
                      /\ cache.clients_total = <<"float", 3>>
                      /\ cache.dns_forwarded_total = <<"float", 0>>

\* a cycle has taken the scalars from the first of two rows, after a cycle that
\* took them from another row
C13_Witness ==
    \E c \in Callers :
        /\ FromStats(c) /\ Frame(c).pc = "return"
        /\ Frame(c).stats = <<StatsRowShort, StatsRowNull>>
        /\ c = "fetcher"

(***************************************************************************)
(* The order of the domain lists (SpecOrder).                              *)
(***************************************************************************)
\* non-increasing query counts
Descending(list) ==
    \A i, j \in 1..Len(list) : i < j => list[i].queries[2] >= list[j].queries[2]

Rendered(sr) ==
    LET coll == store[sr.global]
    IN IF sr.how = "slice" /\ Len(coll) > 20 THEN SubSeq(coll, 1, 20) ELSE coll

\* the value of the first label of the line of an element
FirstLabel(sr, e) ==
    IF sr.global \in DictNames THEN e[1]
    ELSE IF sr.global = "top_clients" THEN e.mac
    ELSE e.domain

\* the sample lines of a series in the text of the request
LinesOf(sr) == SelectSeq(rq.lines, LAMBDA l : l[1] = sr.metric)

HasKey(d, key) == \E i \in 1..Len(d) : d[i][1] = key

\* the keys read at top level (lines 159-163) and one level down (170-172)
TopLevelKeys ==
    {"dns_queries_today", "queries", "dns_queries_total", "ads_blocked_today",
     "ads_blocked_total", "dns_blocked_total", "queries_forwarded", "forwarded",
     "queries_cached", "cached", "unique_clients", "clients"}

NestedKeys == {"dns_queries_today", "ads_blocked_today", "unique_clients"}

\* a JSON object with an expected key at top level or one level nested
HasExpectedKey(d) ==
    \/ \E k \in TopLevelKeys : HasKey(d, k)
    \/ \E i \in 1..Len(d) :
         /\ d[i][2][1] = "dict"
         /\ \E k \in NestedKeys : HasKey(d[i][2][2], k)

\* an answer that is not HTTP 200, not JSON, raises, or has all expected
\* fields absent
NothingToTake(resp) ==
    \/ resp.raises
    \/ resp.status_code # 200
    \/ resp.json[1] # "dict"
    \/ ~HasExpectedKey(resp.json[2])

\* the cycle of caller c is about to request an endpoint after the first one
Skipped(c) == Frame(c).pc = "http" /\ Frame(c).ep > 1

\* C16: in a cycle without an aggregate row the endpoints are requested in
\* their listed order, one request per endpoint, and a later endpoint is
\* requested only after an answer that was not HTTP 200, not JSON, raised, or
\* had every expected key absent: an answer of HTTP 200 with JSON that holds
\* an expected key is the one the cycle takes its scalars from.
C16_FirstAnswerTaken ==
    \A c \in Callers :
      /\ Frame(c).pc \in {"http", "parse"} =>
           Frame(c).stats = <<>> /\ Frame(c).http = Frame(c).ep
      /\ Skipped(c) => NothingToTake(Frame(c).resp)


\* the groups whose query has returned in the cycle of caller c
Fetched(c) == {g \in 1..Len(CollNames) : Frame(c).res[g].done}

\* C17: a cycle whose aggregate query returned a row issues no HTTP request,
\* and fetches each of the seven collection groups by one further query of
\* the database adapter, in the listed order: a cycle that returns True has
\* made the aggregate query and seven more.
C17_AggregateDefinitive ==
    \A c \in Callers :
      Frame(c).stats # <<>> =>
        /\ Frame(c).http = 0 /\ Frame(c).api = 0
        /\ Frame(c).pc \notin {"http", "parse"}
        /\ Frame(c).db = 1 + Frame(c).g
        /\ Fetched(c) = IF Frame(c).pc = "query" THEN 1..(Frame(c).g - 1)
                        ELSE 1..Frame(c).g
        /\ Frame(c).ret = "True" => Frame(c).db = 8 /\ Fetched(c) = 1..Len(CollNames)

C17_Witness ==
    \E c \in Callers :
      Frame(c).stats # <<>> /\ Frame(c).ret = "True" /\ Frame(c).db = 8


\* the cycle of caller c has requested an endpoint
FellBack(c) == Frame(c).http > 0

WentOn(c, i) ==
    /\ store[CollNames[i]] = <<>>
    /\ Frame(c).g > i \/ Frame(c).pc = "finish" \/ Frame(c).ret = "True"

\* C19: every cycle that starts returns True or False, when every adapter
\* call returns; a cycle makes at most 8 database queries and at most 5 HTTP
\* requests; and a query that gives nothing leaves its own group empty while
\* the cycle goes on to the remaining groups.
C19_CycleCompletes ==
    /\ \A c \in Callers :
         (Frame(c).pc = "stats") ~>
             (Frame(c).pc = "return" /\ Frame(c).ret \in {"True", "False"})
    /\ [](\A c \in Callers :
            /\ Frame(c).db <= 8
            /\ Frame(c).http <= 5
            /\ \A i \in 1..Len(CollNames) :
                 (Frame(c).res[i].done /\ Frame(c).res[i].rows = <<>>) => WentOn(c, i))

\* the longest cycle: no query gives anything and no endpoint is usable
C19_Witness ==
    \E c \in Callers :
      /\ Frame(c).pc = "return" /\ Frame(c).ret = "True"
      /\ Frame(c).db = 8 /\ Frame(c).http = 5
      /\ \A i \in 1..Len(CollNames) : Frame(c).res[i].rows = <<>>


(***************************************************************************)
(* query_ftl_database (lines 37-74).                                       *)
(***************************************************************************)
\* the call of caller c has returned
AdapterDone(c) == Frame(c).pc = "adapter_done"

\* non-zero exit, timeout or another exception, a database access error,
\* output that is not JSON, or no output
AdapterFailed(run) ==
    \/ run.raises
    \/ run.mode = "docker" /\ run.returncode # 0
    \/ run.mode = "docker" /\ \E i \in 1..Len(run.stdout) : run.stdout[i][1] = "invalid"
    \/ run.mode = "docker" /\ NonBlank(run.stdout) = <<>>

IsMappings(list) == \A i \in 1..Len(list) : list[i][1] = "dict"

\* C20: query_ftl_database returns the empty sequence on non-zero exit,
\* timeout, malformed output, a database access error or empty output, and
\* else a sequence of mappings, one per result row: per row of fetchall()
\* in volume mode, per line of output that holds a row in docker mode.
C20_MappingPerRow ==
    \A c \in Callers :
      AdapterDone(c) =>
        /\ AdapterFailed(Frame(c).run) => Frame(c).stats = <<>>
        /\ IsMappings(Frame(c).stats)
        /\ ~AdapterFailed(Frame(c).run) =>
             Len(Frame(c).stats) = IF Frame(c).run.mode = "volume"
                                   THEN Len(Frame(c).run.rows)
                                   ELSE Len(NonBlank(Frame(c).run.stdout))


(***************************************************************************)
(* The callers of fetch_pihole_stats (lines 563-567 and 576-580).          *)
(***************************************************************************)
\* a call of fetch_pihole_stats by caller c has not returned yet
InFlight(c) == Frame(c).pc # "idle"

\* C21: at most one cycle is in flight: the start-up call has returned before
\* the thread is started, the thread is in a cycle only between its call and
\* the return of that call, and every write of a snapshot global is made
\* while exactly one cycle is in flight.
C21_OneCycleInFlight ==
    /\ [](/\ Cardinality({c \in Callers : InFlight(c)}) <= 1
          /\ InFlight("main") <=> main = "in_fetch"
          /\ InFlight("fetcher") <=> fetcher = "in_fetch"
          /\ main \in {"initial_fetch", "in_fetch", "start_thread"} <=> fetcher = "unstarted")
    /\ [][store' # store => Cardinality({c \in Callers : InFlight(c)}) = 1]_vars

\* the thread is in a cycle, writing a collection, after the start-up cycle
C21_Witness ==
    /\ InFlight("fetcher") /\ Frame("fetcher").pc = "fill"
    /\ ~InFlight("main") /\ main = "serve_forever"
    /\ store.cache_time # 0


(***************************************************************************)
(* cache_time (lines 374-385).                                             *)
(***************************************************************************)
\* this step assigns cache_time
StampWritten == store'.cache_time # store.cache_time \/ age'.cache_time < age.cache_time

\* the step of caller c from line 374 to the return of True, after the loops
\* of all groups
LastUpdate(c) ==
    /\ Frame(c).pc = "finish" /\ Frame(c).g = Len(CollNames)
    /\ \A i \in 1..Len(CollNames) : Frame(c).res[i].done
    /\ fs'[c].pc = "return" /\ fs'[c].ret = "True"
    /\ \A n \in GroupNames : store'[n] = store[n]

\* C22: cache_time is assigned only in the last update of a cycle that ran
\* through all groups and returns True; a cycle that returns False has left
\* it as it was when the cycle started, whatever groups it has bound anew.
C22_StampOnlyAtEnd ==
    /\ [][StampWritten => \E c \in Callers : LastUpdate(c)]_vars
    /\ [](\A c \in Callers :
            /\ Failed(c) => age.cache_time >= 1
            /\ (Ended(c) /\ Frame(c).ret = "True") => age.cache_time = 0)

\* a cycle has failed after it bound a group anew: cache_time is older than
\* that group
C22_Witness ==
    \E c \in Callers :
      /\ Failed(c) /\ store.cache_time # 0 /\ age.cache_time >= 1
      /\ \E n \in GroupNames : age[n] = 0


(***************************************************************************)
(* The credential in the requests of the fallback (lines 131-147).         *)
(***************************************************************************)
\* the cycle of caller c has sent a request
Sent(c) == Frame(c).req # NoRequest

=============================================================================
